---- MODULE Spec2Model ----
(***************************************************************************)
(* Ingestion pipeline of entropy-backend: parseAndIngest and processRow    *)
(* (lib/main.js), with the required-field checks of validateRow            *)
(* (lib/validator.js) and the format dispatch on the file path.            *)
(*                                                                         *)
(* One run of parseAndIngest is modelled.  JavaScript runs a handler to    *)
(* its next await without interruption, so every action below is the code  *)
(* between two awaits (or one event-loop callback).  A store call is two   *)
(* steps: it is issued by the action that reaches it (its arguments are    *)
(* evaluated then) and settles in a later action, accepted or rejected.    *)
(* A rejected store call has no effect on the store.                       *)
(*                                                                         *)
(* The CSV source is fs.createReadStream(filePath).pipe(csv()): a Node     *)
(* object-mode Readable in flowing mode.  What the model takes from Node:  *)
(*   - a row pushed by csv() while the stream flows and its buffer is      *)
(*     empty is emitted as 'data' at once; any other row is buffered and   *)
(*     emitted by read() once the stream flows; pause() stops the flow,    *)
(*     resume() restarts it;                                               *)
(*   - read() of the last buffered row when end-of-input is already known  *)
(*     schedules 'end' on the next tick, and that tick does not look at    *)
(*     the flowing flag; otherwise 'end' waits until the stream flows;     *)
(*   - pipe() forwards no 'error' of the source stream: the listener of    *)
(*     line 122 sits on the csv() transform, the file stream has none,     *)
(*     and an 'error' event without a listener is an uncaught exception    *)
(*     that ends the process (the repository installs no handler);         *)
(*   - destroy() and an emitted 'error' end the stream: no 'data' or       *)
(*     'end' afterwards.                                                   *)
(***************************************************************************)
EXTENDS Integers, Sequences, FiniteSets, TLC

\* ---- bounds of the model -------------------------------------------------
MaxShortRows == 2      \* short files: every mix of row kinds up to this length
LongRows == 51         \* length of the long files (beyond both 50-thresholds)
MaxStoreFaults == 1    \* store calls rejected per run
CapSmall == 2          \* the small row cap tried besides 0 and the default
MaxBuffered == 2       \* rows csv() has parsed ahead of the 'data' events

\* ---- program constants ---------------------------------------------------
ErrorCap == 50
ProgressEvery == 50
DefaultMaxRows == 10000

Min(a, b) == IF a <= b THEN a ELSE b

\* ---- JavaScript values ---------------------------------------------------
\* A string is a sequence of one-character strings.
Undefined == [t |-> "undefined"]
Null == [t |-> "null"]
NaN == [t |-> "NaN"]
Num(x) == [t |-> "number", n |-> x]
Str(s) == [t |-> "string", s |-> s]
Bool(b) == [t |-> "boolean", b |-> b]
Big(x) == [t |-> "bigint", n |-> x]

\* String.prototype.trim and its left half, on the blank " "
RECURSIVE TrimLeft(_)
TrimLeft(s) == IF s # <<>> /\ s[1] = " " THEN TrimLeft(Tail(s)) ELSE s
RECURSIVE TrimRight(_)
TrimRight(s) ==
    IF s # <<>> /\ s[Len(s)] = " " THEN TrimRight(SubSeq(s, 1, Len(s) - 1)) ELSE s
Trim(s) == TrimRight(TrimLeft(s))

DigitChars == {"0", "1", "2", "3", "4", "5", "6", "7", "8", "9"}
DigitVal(c) ==
    CASE c = "0" -> 0 [] c = "1" -> 1 [] c = "2" -> 2 [] c = "3" -> 3
      [] c = "4" -> 4 [] c = "5" -> 5 [] c = "6" -> 6 [] c = "7" -> 7
      [] c = "8" -> 8 [] c = "9" -> 9
DigitChar(d) ==
    CASE d = 0 -> "0" [] d = 1 -> "1" [] d = 2 -> "2" [] d = 3 -> "3"
      [] d = 4 -> "4" [] d = 5 -> "5" [] d = 6 -> "6" [] d = 7 -> "7"
      [] d = 8 -> "8" [] d = 9 -> "9"

AllDigits(s) == Len(s) > 0 /\ \A i \in 1..Len(s) : s[i] \in DigitChars

RECURSIVE DigitsValue(_)
DigitsValue(s) ==
    IF s = <<>> THEN 0
    ELSE 10 * DigitsValue(SubSeq(s, 1, Len(s) - 1)) + DigitVal(s[Len(s)])

RECURSIVE NatToChars(_)
NatToChars(k) ==
    IF k < 10 THEN <<DigitChar(k)>>
    ELSE NatToChars(k \div 10) \o <<DigitChar(k % 10)>>

IntToChars(k) == IF k < 0 THEN <<"-">> \o NatToChars(-k) ELSE NatToChars(k)

\* Number(value) on the cell values of the model: integers written in
\* decimal digits with an optional minus sign, blanks around them ignored;
\* the empty or blank string is 0 and any other text is NaN.
ToNumber(v) ==
    CASE v.t = "undefined" -> NaN
      [] v.t = "null" -> Num(0)
      [] v.t = "NaN" -> NaN
      [] v.t = "number" -> v
      [] v.t = "boolean" -> IF v.b THEN Num(1) ELSE Num(0)
      [] v.t = "bigint" -> Num(v.n)
      [] v.t = "string" ->
            LET u == Trim(v.s) IN
            IF u = <<>> THEN Num(0)
            ELSE IF AllDigits(u) THEN Num(DigitsValue(u))
            ELSE IF u[1] = "-" /\ AllDigits(Tail(u))
                 THEN Num(-DigitsValue(Tail(u)))
            ELSE NaN

\* The longest prefix of s made of digits.
RECURSIVE DigitPrefix(_)
DigitPrefix(s) ==
    IF s = <<>> \/ s[1] \notin DigitChars THEN <<>>
    ELSE <<s[1]>> \o DigitPrefix(Tail(s))

\* parseFloat(value) on the same cell values: the leading integer of the
\* text after its leading blanks, NaN when there is none.  A value that is
\* no string is converted to one first.
ParseFloat(v) ==
    CASE v.t = "number" -> v
      [] v.t = "bigint" -> Num(v.n)
      [] v.t = "string" ->
            LET u == TrimLeft(v.s) IN
            IF DigitPrefix(u) # <<>> THEN Num(DigitsValue(DigitPrefix(u)))
            ELSE IF Len(u) > 1 /\ u[1] = "-" /\ DigitPrefix(Tail(u)) # <<>>
                 THEN Num(-DigitsValue(DigitPrefix(Tail(u))))
            ELSE NaN
      [] OTHER -> NaN

\* parseInt(value, 10): on integers and on text it reads what parseFloat
\* reads
ParseInt(v) == ParseFloat(v)

\* String(value)
JsString(v) ==
    CASE v.t = "undefined" -> <<"u", "n", "d", "e", "f", "i", "n", "e", "d">>
      [] v.t = "null" -> <<"n", "u", "l", "l">>
      [] v.t = "NaN" -> <<"N", "a", "N">>
      [] v.t = "number" -> IntToChars(v.n)
      [] v.t = "bigint" -> IntToChars(v.n)
      [] v.t = "boolean" ->
            IF v.b THEN <<"t", "r", "u", "e">> ELSE <<"f", "a", "l", "s", "e">>
      [] v.t = "string" -> v.s

\* String.prototype.toLowerCase on the letters the model writes
LowerChar(c) ==
    CASE c = "C" -> "c" [] c = "S" -> "s" [] c = "V" -> "v" [] c = "T" -> "t"
      [] c = "X" -> "x" [] c = "L" -> "l" [] c = "R" -> "r" [] c = "U" -> "u"
      [] c = "E" -> "e" [] c = "Y" -> "y" [] OTHER -> c
toLowerCase(s) == [i \in 1..Len(s) |-> LowerChar(s[i])]

\* !value
JsNot(v) ==
    CASE v.t = "undefined" -> TRUE
      [] v.t = "null" -> TRUE
      [] v.t = "NaN" -> TRUE
      [] v.t = "number" -> v.n = 0
      [] v.t = "bigint" -> v.n = 0
      [] v.t = "boolean" -> ~v.b
      [] v.t = "string" -> v.s = <<>>
      [] OTHER -> FALSE

\* a || b
JsOr(a, b) == IF JsNot(a) THEN b ELSE a

\* JsLtZero comparing only values that are numbers already
JsLtZeroNumbersOnly(v) == v.t = "number" /\ v.n < 0

\* value < 0
JsLtZero(v) == ToNumber(v).t = "number" /\ ToNumber(v).n < 0

IsNullish(v) == v \in {Undefined, Null}

\* ---- lib/validator.js: coercion of the core fields -----------------------
IsBlank(v) == IsNullish(v) \/ v = Str(<<>>)

\* BigInt(Math.floor(Number(value))); BigInt(NaN) throws and the helper
\* catches it.
toBigInt(v) ==
    IF IsBlank(v) THEN Null
    ELSE IF ToNumber(v).t = "NaN" THEN Null ELSE Big(ToNumber(v).n)

toDecimal(v) ==
    IF IsBlank(v) THEN Num(0)
    ELSE IF ParseFloat(v).t = "NaN" THEN Num(0) ELSE ParseFloat(v)

\* /^(true|yes|1|y|t)$/i.test(value)
TruthyText(s) ==
    toLowerCase(s) \in {<<"t", "r", "u", "e">>, <<"y", "e", "s">>, <<"1">>,
                        <<"y">>, <<"t">>}

\* lines 313-319
toBoolean(v) ==
    IF IsBlank(v) THEN Bool(FALSE)
    ELSE CASE v.t = "boolean" -> v
           [] v.t = "number" -> Bool(v.n = 1)
           [] v.t = "NaN" -> Bool(FALSE)
           [] v.t = "string" -> Bool(TruthyText(v.s))
           [] OTHER -> Bool(FALSE)

\* lines 321-325
toFloat(v) ==
    IF IsBlank(v) THEN Null
    ELSE IF ParseFloat(v).t = "NaN" THEN Null ELSE ParseFloat(v)

\* lines 327-331
toInt(v) ==
    IF IsBlank(v) THEN Null
    ELSE IF ParseInt(v).t = "NaN" THEN Null ELSE ParseInt(v)

\* lines 348-351
toString(v) == IF IsBlank(v) THEN Null ELSE Str(Trim(JsString(v)))

\* lines 353-357
toChar(v) ==
    IF IsBlank(v) THEN Null
    ELSE IF Len(Trim(JsString(v))) > 0
         THEN Str(<<Trim(JsString(v))[1]>>) ELSE Null

\* ---- lib/validator.js: validateRow (lines 21-310) ------------------------
\* rawRow.key: undefined when the row has no such property
Get(rawRow, key) == IF key \in DOMAIN rawRow THEN rawRow[key] ELSE Undefined

\* what a try block ends with: a returned result or a thrown error
Returns(valid, error, data) ==
    [threw |-> FALSE, valid |-> valid, error |-> error, data |-> data]
Throws(message) ==
    [threw |-> TRUE, valid |-> FALSE, error |-> message, data |-> Null]

\* the try block of lines 22-306; reading a property of null or undefined
\* throws
validateRowTry(rawRow) ==
    IF IsNullish(rawRow) THEN Throws("Cannot read properties")
    ELSE IF JsNot(rawRow.TransactionID)
    THEN Returns(FALSE, "Missing TransactionID", Null)
    ELSE IF IsNullish(rawRow.TransactionDT)
    THEN Returns(FALSE, "Missing TransactionDT", Null)
    ELSE IF IsNullish(rawRow.TransactionAmt) \/ JsLtZero(rawRow.TransactionAmt)
    THEN Returns(FALSE, "Invalid TransactionAmt", Null)
    ELSE Returns(TRUE, "",
                 [t |-> "transaction",
                  TransactionID |-> toBigInt(rawRow.TransactionID),
                  TransactionDT |-> toBigInt(rawRow.TransactionDT),
                  TransactionAmt |-> toDecimal(rawRow.TransactionAmt),
                  ProductCD |-> toString(Get(rawRow, "ProductCD")),
                  card1 |-> toInt(Get(rawRow, "card1")),
                  dist1 |-> toFloat(Get(rawRow, "dist1")),
                  M1 |-> toChar(Get(rawRow, "M1")),
                  isFraud |-> toBoolean(Get(rawRow, "isFraud"))])

\* CatchValidation without the catch: the error leaves validateRow
CatchValidationRethrows(r) == r

\* catch (err) of lines 307-309 and of lines 427-429
CatchValidation(r) == IF r.threw THEN Returns(FALSE, r.error, Null) ELSE r

validateRow(rawRow) == CatchValidation(validateRowTry(rawRow))

\* ---- lib/validator.js: the second schema (lines 359-445) -----------------
\* /^(true|yes|1|y)$/i.test(value)
TruthyText_2(s) ==
    toLowerCase(s) \in {<<"t", "r", "u", "e">>, <<"y", "e", "s">>, <<"1">>,
                        <<"y">>}

\* lines 432-436
toBoolean_2(v) ==
    CASE v.t = "boolean" -> v
      [] v.t = "string" -> Bool(TruthyText_2(v.s))
      [] OTHER -> Bool(~JsNot(v))

\* lines 438-442
toFloat_2(v) ==
    IF IsBlank(v) THEN Null
    ELSE IF ParseFloat(v).t = "NaN" THEN Null ELSE ParseFloat(v)

\* line 444: Math.max(0, Math.min(1, value)); NaN stays NaN
clamp(v) ==
    IF v.t = "NaN" THEN NaN
    ELSE IF v.n < 0 THEN Num(0) ELSE IF v.n > 1 THEN Num(1) ELSE v

\* value <= 0
JsLeZero(v) == ToNumber(v).t = "number" /\ ToNumber(v).n <= 0

\* whether BigInt(value) throws: text that is no integer, NaN, null and
\* undefined
BigIntThrows(v) == ToNumber(v).t = "NaN" \/ IsNullish(v)

\* the try block of lines 362-426
validateRowTry_2(rawRow) ==
    IF IsNullish(rawRow) THEN Throws("Cannot read properties")
    ELSE IF JsNot(Get(rawRow, "timestamp"))
    THEN Returns(FALSE, "Missing timestamp", Null)
    ELSE IF JsNot(Get(rawRow, "sender_account"))
    THEN Returns(FALSE, "Missing sender_account", Null)
    ELSE IF JsNot(Get(rawRow, "receiver_account"))
    THEN Returns(FALSE, "Missing receiver_account", Null)
    ELSE IF JsNot(Get(rawRow, "amount_ngn")) \/ JsLeZero(Get(rawRow, "amount_ngn"))
    THEN Returns(FALSE, "Invalid amount_ngn", Null)
    ELSE IF BigIntThrows(Get(rawRow, "sender_account"))
              \/ BigIntThrows(Get(rawRow, "receiver_account"))
    THEN Throws("Cannot convert to a BigInt")
    ELSE Returns(TRUE, "",
                 [t |-> "normalized",
                  senderAccount |-> Big(ToNumber(Get(rawRow, "sender_account")).n),
                  receiverAccount |-> Big(ToNumber(Get(rawRow, "receiver_account")).n),
                  amountNgn |-> ParseFloat(Get(rawRow, "amount_ngn")),
                  txnHour |-> ParseInt(JsOr(Get(rawRow, "txn_hour"), Num(0))),
                  isWeekend |-> toBoolean_2(Get(rawRow, "is_weekend")),
                  timeSinceLast |-> toFloat_2(Get(rawRow, "time_since_last")),
                  geoAnomalyScore |->
                      ParseFloat(JsOr(Get(rawRow, "geo_anomaly_score"), Num(0))),
                  merchantFraudRate |->
                      clamp(ParseFloat(JsOr(Get(rawRow, "merchant_fraud_rate"),
                                            Num(0))))])

validateRow_2(rawRow) == CatchValidation(validateRowTry_2(rawRow))

\* ---- inputs --------------------------------------------------------------
ValidRow ==
    [TransactionID |-> Str(<<"7">>), TransactionDT |-> Str(<<"9">>),
     TransactionAmt |-> Str(<<"5">>)]
NoAmountRow ==
    [TransactionID |-> Str(<<"7">>), TransactionDT |-> Str(<<"9">>),
     TransactionAmt |-> Undefined]
\* the amount cell is there and holds no text
EmptyAmountRow ==
    [TransactionID |-> Str(<<"7">>), TransactionDT |-> Str(<<"9">>),
     TransactionAmt |-> Str(<<>>)]
RowKinds == {ValidRow, NoAmountRow}

ShortFiles == UNION {[1..k -> RowKinds] : k \in 0..MaxShortRows}
LongFiles ==
    {[i \in 1..LongRows |-> ValidRow],
     [i \in 1..LongRows |-> NoAmountRow],
     [i \in 1..LongRows |-> IF i = LongRows THEN ValidRow ELSE NoAmountRow],
     [i \in 1..LongRows |-> IF i = LongRows THEN NoAmountRow ELSE ValidRow]}
\* files with an empty amount cell, alone and after two valid rows
EmptyCellFiles ==
    {<<EmptyAmountRow>>, <<ValidRow, ValidRow, EmptyAmountRow>>}
Files == ShortFiles \cup LongFiles \cup EmptyCellFiles

RowCaps == {0, CapSmall, DefaultMaxRows}

\* Upload paths: multer stores originalname + "-" + Date.now().
Paths ==
    {<<"t", ".", "c", "s", "v", "-", "1">>,
     <<"T", ".", "C", "S", "V">>,
     <<"t", ".", "x", "l", "s", "x", "-", "1">>}

\* ---- format dispatch (main.js 95-97) -------------------------------------
endsWith(s, suf) ==
    Len(s) >= Len(suf) /\ SubSeq(s, Len(s) - Len(suf) + 1, Len(s)) = suf
includes(s, sub) ==
    \E i \in 1..(Len(s) + 1) :
        i + Len(sub) - 1 <= Len(s) /\ SubSeq(s, i, i + Len(sub) - 1) = sub
\* isCsv by the strict suffix only
isCsvSuffixOnly(path) == endsWith(toLowerCase(path), <<".", "c", "s", "v">>)

isCsv(path) ==
    \/ endsWith(toLowerCase(path), <<".", "c", "s", "v">>)
    \/ includes(toLowerCase(path), <<".", "c", "s", "v", "-">>)

\* ---- state ---------------------------------------------------------------
VARIABLES
    filePath,       \* argument: the uploaded file's path
    rows,           \* the rows the file holds
    maxRows,        \* argument: the row cap
    pc,             \* where parseAndIngest stands
    datasetRun,     \* local datasetRun: 0 for null, else the record's id
    context,        \* the context object shared with processRow
    err,            \* the error caught by catch (err)
    completion,     \* what the call settles with once finally has run
    runRec,         \* the store's DatasetRun record of this run
    committed,      \* the store's transactions: ordinals of the rows inserted
    stream,         \* the CSV stream and the promise wrapped around it
    inFlight,       \* processRow invocations that have not been resumed from
    idx,            \* whole-file loop: rows of capped already processed
    capped,         \* whole-file loop: capped.length
    finalArg,       \* recordsProcessed as passed to the COMPLETED update
    fileExists,     \* whether filePath exists on disk
    consumed,       \* history: rows passed to processRow
    failedRows,     \* history: rows rejected by validation or by the store
    storeFaults,    \* history: store calls rejected so far, by what they wrote
    srcFault,       \* history: the fault of the row source, if any
    statusHistory,  \* history: the statuses the run record has been given
    unlinkFailed,   \* history: fsp.unlink threw
    progressWrites, \* history: progress updates the store accepted
    call            \* a helper of validator.js called on its own: argument, result

vars == <<filePath, rows, maxRows, pc, datasetRun, context, err, completion,
          runRec, committed, stream, inFlight, idx, capped, finalArg,
          fileExists, consumed, failedRows, storeFaults, srcFault,
          statusHistory, unlinkFailed, progressWrites, call>>

inputs == <<filePath, rows, maxRows, call>>
wfVars == <<idx, capped>>

RunId == 1
NoRun == [id |-> 0, status |-> "NONE", recordsProcessed |-> 0, endedAt |-> FALSE]
NoCompletion == [kind |-> "none", error |-> "none", success |-> FALSE,
                 recordsProcessed |-> 0, recordsFailed |-> 0,
                 datasetRunId |-> 0, errors |-> <<>>]

\* ---- main.js: processRow, the code between its awaits --------------------
\* RejectRow with the counter moved inside the test of the cap
RejectRowCountedUnderCap(ctx, error) ==
    LET failed == ctx.recordsFailed + 1 IN
    IF Len(ctx.errors) < ErrorCap
    THEN [ctx EXCEPT
            !.recordsFailed = failed,
            !.errors = Append(ctx.errors,
                              [kind |-> "row",
                               row |-> failed + ctx.recordsProcessed,
                               TransactionID |-> Undefined,
                               error |-> error])]
    ELSE ctx

\* RejectRow counting the rejected row as processed too
RejectRowAlsoProcessed(ctx, error) ==
    LET failed == ctx.recordsFailed + 1 IN
    [ctx EXCEPT
        !.recordsFailed = failed,
        !.recordsProcessed = ctx.recordsProcessed + 1,
        !.errors = IF Len(ctx.errors) < ErrorCap
                   THEN Append(ctx.errors,
                               [kind |-> "row",
                                row |-> failed + ctx.recordsProcessed,
                                TransactionID |-> Undefined,
                                error |-> error])
                   ELSE ctx.errors]

\* lines 16-25: the row failed validation
RejectRow(ctx, error) ==
    LET failed == ctx.recordsFailed + 1 IN
    [ctx EXCEPT
        !.recordsFailed = failed,
        !.errors = IF Len(ctx.errors) < ErrorCap
                   THEN Append(ctx.errors,
                               [kind |-> "row",
                                row |-> failed + ctx.recordsProcessed,
                                TransactionID |-> Undefined,
                                error |-> error])
                   ELSE ctx.errors]

\* transaction.TransactionID?.toString()
IdToString(v) == IF v.t = "bigint" THEN Str(IntToChars(v.n)) ELSE Undefined

\* lines 52-64: catch (insertError), entered from either await of the try
InsertCaught(ctx, transaction, message) ==
    [ctx EXCEPT
        !.recordsFailed = ctx.recordsFailed + 1,
        !.errors = IF Len(ctx.errors) < ErrorCap
                   THEN Append(ctx.errors,
                               [kind |-> "TransactionID",
                                row |-> 0,
                                TransactionID |-> IdToString(transaction.TransactionID),
                                error |-> message])
                   ELSE ctx.errors]

\* line 42
InsertDone(ctx) == [ctx EXCEPT !.recordsProcessed = ctx.recordsProcessed + 1]

\* ProgressDue one insert late
ProgressDueOneLate(ctx) == ctx.recordsProcessed % ProgressEvery = 1

\* ProgressDue without the throttle: a progress update after every insert
ProgressDueEveryRow(ctx) == TRUE

\* line 45
ProgressDue(ctx) == ctx.recordsProcessed % ProgressEvery = 0

\* lines 15-41: processRow up to its first await; the stage it is left in
StartRow(ctx, row) ==
    IF validateRow(row).valid THEN ctx ELSE RejectRow(ctx, validateRow(row).error)
StartStage(row) == IF validateRow(row).valid THEN "create" ELSE "settled"

Invocation(i, at, arg) == [row |-> i, at |-> at, arg |-> arg]

\* ---- initial state -------------------------------------------------------
ClosedStream ==
    [open |-> FALSE, rowsStreamed |-> 0, pushed |-> 0, delivered |-> 0,
     flowing |-> FALSE,
     ended |-> FALSE, endPending |-> FALSE, endEmitted |-> FALSE,
     destroyed |-> FALSE, promise |-> "none"]

NoCall == [fn |-> "none", arg |-> Null, done |-> FALSE, out |-> Null,
           twice |-> FALSE, again |-> Null]

\* parseAndIngest is entered: lines 73-80
InitRun ==
    /\ pc = "create"
    /\ datasetRun = 0
    /\ context = [recordsProcessed |-> 0, recordsFailed |-> 0,
                  errors |-> <<>>, datasetRunId |-> 0]
    /\ err = "none"
    /\ completion = NoCompletion
    /\ runRec = NoRun
    /\ committed = <<>>
    /\ stream = ClosedStream
    /\ inFlight = {}
    /\ idx = 0
    /\ capped = 0
    /\ finalArg = 0
    /\ fileExists = TRUE
    /\ consumed = 0
    /\ failedRows = 0
    /\ storeFaults = [row |-> 0, progress |-> 0, run |-> 0]
    /\ srcFault = "none"
    /\ statusHistory = <<>>
    /\ unlinkFailed = FALSE
    /\ progressWrites = 0

Init ==
    /\ filePath \in Paths
    /\ rows \in Files
    /\ maxRows \in RowCaps
    /\ call = NoCall
    /\ InitRun

Alive == pc # "crashed"
MayFault ==
    storeFaults.row + storeFaults.progress + storeFaults.run < MaxStoreFaults

\* ---- parseAndIngest: creating the run record (84-100, 126-127) -----------
\* lines 101-103 and 105, 121, 122: the stream is opened and starts flowing
OpenStream ==
    [ClosedStream EXCEPT !.open = TRUE, !.flowing = TRUE, !.promise = "pending"]

CreateRunOk ==
    /\ pc = "create"
    /\ runRec' = [id |-> RunId, status |-> "RUNNING", recordsProcessed |-> 0,
                  endedAt |-> FALSE]
    /\ statusHistory' = Append(statusHistory, "RUNNING")
    /\ datasetRun' = RunId
    /\ context' = [context EXCEPT !.datasetRunId = RunId]
    /\ IF isCsv(filePath)
       THEN pc' = "stream" /\ stream' = OpenStream
       ELSE pc' = "load" /\ stream' = stream
    /\ UNCHANGED <<inputs, err, completion, committed, inFlight, wfVars,
                   finalArg, fileExists, consumed, failedRows, storeFaults,
                   srcFault, unlinkFailed,
                   progressWrites>>

CreateRunFail ==
    /\ pc = "create"
    /\ MayFault
    /\ storeFaults' = [storeFaults EXCEPT !.run = @ + 1]
    /\ err' = "createRunFault"
    /\ pc' = "catch"
    /\ UNCHANGED <<inputs, datasetRun, context, completion, runRec, committed,
                   stream, inFlight, wfVars, finalArg, fileExists, consumed,
                   failedRows, srcFault, statusHistory, unlinkFailed,
                   progressWrites>>

\* ---- the 'data' handler (105-119) ----------------------------------------
\* AtCap with the cap tested by > instead of >=
AtCapOffByOne(st, cap) == st.rowsStreamed > cap

\* line 106
AtCap(st, cap) == st.rowsStreamed >= cap

\* OnData without stream.pause()
OnDataNoPause(st, cap) ==
    IF AtCap(st, cap)
    THEN [st EXCEPT !.destroyed = TRUE,
                    !.promise = IF st.promise = "pending" THEN "resolved"
                                ELSE st.promise]
    ELSE [st EXCEPT !.rowsStreamed = st.rowsStreamed + 1]

\* the handler's effect on the stream and on the promise
OnData(st, cap) ==
    IF AtCap(st, cap)
    THEN [st EXCEPT !.destroyed = TRUE,
                    !.promise = IF st.promise = "pending" THEN "resolved"
                                ELSE st.promise]
    ELSE [st EXCEPT !.rowsStreamed = st.rowsStreamed + 1, !.flowing = FALSE]

\* lines 105-119 up to the await, run for the row at position i; st is the
\* stream as the library leaves it when it emits 'data'
DataHandler(st, i) ==
    /\ stream' = OnData(st, maxRows)
    /\ IF AtCap(st, maxRows)
       THEN UNCHANGED <<context, inFlight, consumed, failedRows>>
       ELSE /\ context' = StartRow(context, rows[i])
            /\ inFlight' = inFlight \cup {Invocation(i, StartStage(rows[i]), 0)}
            /\ consumed' = consumed + 1
            /\ failedRows' = IF validateRow(rows[i]).valid
                             THEN failedRows ELSE failedRows + 1

CanPush ==
    /\ Alive
    /\ stream.open /\ ~stream.ended /\ ~stream.destroyed
    /\ stream.pushed < Len(rows)
    /\ stream.pushed - stream.delivered < MaxBuffered

\* csv() pushes a row while the stream flows with an empty buffer: 'data' is
\* emitted at once
PushEmit ==
    /\ CanPush
    /\ stream.flowing /\ stream.pushed = stream.delivered
    /\ DataHandler([stream EXCEPT !.pushed = stream.pushed + 1,
                                  !.delivered = stream.delivered + 1],
                   stream.pushed + 1)
    /\ UNCHANGED <<inputs, pc, datasetRun, err, completion, runRec, committed,
                   wfVars, finalArg, fileExists, storeFaults, srcFault,
                   statusHistory, unlinkFailed,
                   progressWrites>>

\* csv() pushes a row while the stream is paused or rows are waiting: the
\* row is buffered
PushBuffer ==
    /\ CanPush
    /\ ~(stream.flowing /\ stream.pushed = stream.delivered)
    /\ stream' = [stream EXCEPT !.pushed = stream.pushed + 1]
    /\ UNCHANGED <<inputs, pc, datasetRun, context, err, completion, runRec,
                   committed, inFlight, wfVars, finalArg, fileExists, consumed,
                   failedRows, storeFaults, srcFault, statusHistory,
                   unlinkFailed,
                   progressWrites>>

\* the flowing stream reads the next buffered row and emits 'data'; reading
\* the last row with end-of-input known schedules 'end'
Deliver ==
    /\ Alive
    /\ stream.open /\ stream.flowing
    /\ ~stream.destroyed /\ ~stream.endEmitted
    /\ stream.delivered < stream.pushed
    /\ DataHandler([stream EXCEPT
                       !.delivered = stream.delivered + 1,
                       !.endPending = (stream.delivered + 1 = stream.pushed
                                       /\ stream.ended)],
                   stream.delivered + 1)
    /\ UNCHANGED <<inputs, pc, datasetRun, err, completion, runRec, committed,
                   wfVars, finalArg, fileExists, storeFaults, srcFault,
                   statusHistory, unlinkFailed,
                   progressWrites>>

\* line 118, once processRow(...).catch(...) has settled
Resume ==
    /\ Alive
    /\ stream.open
    /\ \E h \in inFlight :
          /\ h.at = "settled"
          /\ inFlight' = inFlight \ {h}
          /\ stream' = [stream EXCEPT !.flowing = TRUE]
    /\ UNCHANGED <<inputs, pc, datasetRun, context, err, completion, runRec,
                   committed, wfVars, finalArg, fileExists, consumed,
                   failedRows, storeFaults, srcFault, statusHistory,
                   unlinkFailed,
                   progressWrites>>

\* ---- the row source: events of the two piped streams ---------------------
\* the file has been read to its end and csv() has flushed
SourceEnd ==
    /\ Alive
    /\ stream.open /\ ~stream.ended /\ ~stream.destroyed
    /\ stream.pushed = Len(rows)
    /\ stream' = [stream EXCEPT !.ended = TRUE]
    /\ UNCHANGED <<inputs, pc, datasetRun, context, err, completion, runRec,
                   committed, inFlight, wfVars, finalArg, fileExists, consumed,
                   failedRows, storeFaults, srcFault, statusHistory,
                   unlinkFailed,
                   progressWrites>>

\* line 121: 'end' resolves the promise
OnEnd(st) ==
    [st EXCEPT !.endEmitted = TRUE,
               !.promise = IF st.promise = "pending" THEN "resolved"
                           ELSE st.promise]

EmitEnd ==
    /\ Alive
    /\ stream.open /\ stream.ended
    /\ ~stream.endEmitted /\ ~stream.destroyed
    /\ stream.delivered = stream.pushed
    /\ stream.endPending \/ stream.flowing
    /\ stream' = OnEnd(stream)
    /\ UNCHANGED <<inputs, pc, datasetRun, context, err, completion, runRec,
                   committed, inFlight, wfVars, finalArg, fileExists, consumed,
                   failedRows, storeFaults, srcFault, statusHistory,
                   unlinkFailed,
                   progressWrites>>

\* line 122: 'error' of the csv() transform rejects the promise
OnError(st) ==
    [st EXCEPT !.destroyed = TRUE,
               !.promise = IF st.promise = "pending" THEN "rejected"
                           ELSE st.promise]

ParseFault ==
    /\ Alive
    /\ stream.open /\ ~stream.ended /\ ~stream.destroyed
    /\ srcFault = "none"
    /\ srcFault' = "parse"
    /\ stream' = OnError(stream)
    /\ UNCHANGED <<inputs, pc, datasetRun, context, err, completion, runRec,
                   committed, inFlight, wfVars, finalArg, fileExists, consumed,
                   failedRows, storeFaults, statusHistory, unlinkFailed,
                   progressWrites>>

\* line 103: 'error' of fs.createReadStream(filePath) has no listener
FileReadFault ==
    /\ Alive
    /\ stream.open /\ ~stream.ended /\ ~stream.destroyed
    /\ srcFault = "none"
    /\ srcFault' = "read"
    /\ pc' = "crashed"
    /\ UNCHANGED <<inputs, datasetRun, context, err, completion, runRec,
                   committed, stream, inFlight, wfVars, finalArg, fileExists,
                   consumed, failedRows, storeFaults, statusHistory,
                   unlinkFailed,
                   progressWrites>>

\* line 101: await new Promise(...)
AwaitStream ==
    /\ pc = "stream"
    /\ stream.promise \in {"resolved", "rejected"}
    /\ IF stream.promise = "resolved"
       THEN pc' = "final" /\ err' = err
       ELSE pc' = "catch" /\ err' = "streamFault"
    /\ UNCHANGED <<inputs, datasetRun, context, completion, runRec, committed,
                   stream, inFlight, wfVars, finalArg, fileExists, consumed,
                   failedRows, storeFaults, srcFault, statusHistory,
                   unlinkFailed,
                   progressWrites>>

\* ---- processRow: its store calls settle (41-64) --------------------------
Transaction(i) == validateRow(rows[i]).data

\* line 41 accepted; lines 42-46 follow
CreateOk ==
    /\ Alive
    /\ \E h \in inFlight :
          /\ h.at = "create"
          /\ committed' = Append(committed, h.row)
          /\ context' = InsertDone(context)
          /\ inFlight' = (inFlight \ {h}) \cup
                {IF ProgressDue(InsertDone(context))
                 THEN Invocation(h.row, "progress",
                                 InsertDone(context).recordsProcessed)
                 ELSE Invocation(h.row, "settled", 0)}
    /\ UNCHANGED <<inputs, pc, datasetRun, err, completion, runRec, stream,
                   wfVars, finalArg, fileExists, consumed, failedRows,
                   storeFaults, srcFault, statusHistory, unlinkFailed,
                   progressWrites>>

\* CreateFail with the insert error passed to reject instead of being counted
\* and swallowed
CreateFailAborts ==
    /\ Alive
    /\ MayFault
    /\ \E h \in inFlight :
          /\ h.at = "create"
          /\ inFlight' = (inFlight \ {h}) \cup {Invocation(h.row, "settled", 0)}
    /\ stream' = [stream EXCEPT !.destroyed = TRUE,
                                !.promise = IF stream.promise = "pending"
                                            THEN "rejected" ELSE stream.promise]
    /\ storeFaults' = [storeFaults EXCEPT !.row = @ + 1]
    /\ failedRows' = failedRows + 1
    /\ UNCHANGED <<inputs, pc, datasetRun, context, err, completion, runRec,
                   committed, wfVars, finalArg, fileExists, consumed, srcFault,
                   statusHistory, unlinkFailed,
                   progressWrites>>

\* CreateFail with the insert error leaving processRow in the whole-file loop
CreateFailFatal ==
    /\ Alive
    /\ MayFault
    /\ \E h \in inFlight :
          /\ h.at = "create"
          /\ IF pc = "loop"
             THEN /\ inFlight' = inFlight \ {h}
                  /\ pc' = "catch"
                  /\ err' = "insertFault"
                  /\ context' = context
             ELSE /\ inFlight' = (inFlight \ {h}) \cup
                                    {Invocation(h.row, "settled", 0)}
                  /\ pc' = pc
                  /\ err' = err
                  /\ context' = InsertCaught(context, Transaction(h.row),
                                             "insert rejected")
    /\ storeFaults' = [storeFaults EXCEPT !.row = @ + 1]
    /\ failedRows' = failedRows + 1
    /\ UNCHANGED <<inputs, datasetRun, completion, runRec, committed, stream,
                   wfVars, finalArg, fileExists, consumed, srcFault,
                   statusHistory, unlinkFailed, progressWrites>>

\* line 41 rejected
CreateFail ==
    /\ Alive
    /\ MayFault
    /\ \E h \in inFlight :
          /\ h.at = "create"
          /\ context' = InsertCaught(context, Transaction(h.row), "insert rejected")
          /\ inFlight' = (inFlight \ {h}) \cup {Invocation(h.row, "settled", 0)}
    /\ storeFaults' = [storeFaults EXCEPT !.row = @ + 1]
    /\ failedRows' = failedRows + 1
    /\ UNCHANGED <<inputs, pc, datasetRun, err, completion, runRec, committed,
                   stream, wfVars, finalArg, fileExists, consumed, srcFault,
                   statusHistory, unlinkFailed,
                   progressWrites>>

\* lines 46-49 accepted
ProgressOk ==
    /\ Alive
    /\ \E h \in inFlight :
          /\ h.at = "progress"
          /\ runRec' = [runRec EXCEPT !.recordsProcessed = h.arg]
          /\ inFlight' = (inFlight \ {h}) \cup {Invocation(h.row, "settled", 0)}
    /\ progressWrites' = progressWrites + 1
    /\ UNCHANGED <<inputs, pc, datasetRun, context, err, completion, committed,
                   stream, wfVars, finalArg, fileExists, consumed, failedRows,
                   storeFaults, srcFault, statusHistory, unlinkFailed>>

\* lines 46-49 rejected: the same catch (insertError) takes it
ProgressFail ==
    /\ Alive
    /\ MayFault
    /\ \E h \in inFlight :
          /\ h.at = "progress"
          /\ context' = InsertCaught(context, Transaction(h.row), "update rejected")
          /\ inFlight' = (inFlight \ {h}) \cup {Invocation(h.row, "settled", 0)}
    /\ storeFaults' = [storeFaults EXCEPT !.progress = @ + 1]
    /\ UNCHANGED <<inputs, pc, datasetRun, err, completion, runRec, committed,
                   stream, wfVars, finalArg, fileExists, consumed, failedRows,
                   srcFault, statusHistory, unlinkFailed,
                   progressWrites>>

\* ---- parseAndIngest: the whole-file path (126-133) -----------------------
\* rows.slice(0, maxRows).length
CappedLength(n, cap) == Min(n, cap)

LoadOk ==
    /\ pc = "load"
    /\ capped' = CappedLength(Len(rows), maxRows)
    /\ idx' = 0
    /\ pc' = "loop"
    /\ UNCHANGED <<inputs, datasetRun, context, err, completion, runRec,
                   committed, stream, inFlight, finalArg, fileExists, consumed,
                   failedRows, storeFaults, srcFault, statusHistory,
                   unlinkFailed,
                   progressWrites>>

\* parseTransactionFile throws (XLSX.readFile cannot read the file)
LoadFail ==
    /\ pc = "load"
    /\ srcFault' = "load"
    /\ err' = "loadFault"
    /\ pc' = "catch"
    /\ UNCHANGED <<inputs, datasetRun, context, completion, runRec, committed,
                   stream, inFlight, wfVars, finalArg, fileExists, consumed,
                   failedRows, storeFaults, statusHistory, unlinkFailed,
                   progressWrites>>

\* line 132: the next row of capped is passed to processRow
LoopStart ==
    /\ pc = "loop"
    /\ inFlight = {}
    /\ idx < capped
    /\ context' = StartRow(context, rows[idx + 1])
    /\ inFlight' = {Invocation(idx + 1, StartStage(rows[idx + 1]), 0)}
    /\ consumed' = consumed + 1
    /\ failedRows' = IF validateRow(rows[idx + 1]).valid
                     THEN failedRows ELSE failedRows + 1
    /\ UNCHANGED <<inputs, pc, datasetRun, err, completion, runRec, committed,
                   stream, wfVars, finalArg, fileExists, storeFaults, srcFault,
                   statusHistory, unlinkFailed,
                   progressWrites>>

\* line 132: await processRow(row, context) returns
LoopNext ==
    /\ pc = "loop"
    /\ \E h \in inFlight :
          /\ h.at = "settled"
          /\ inFlight' = inFlight \ {h}
    /\ idx' = idx + 1
    /\ UNCHANGED <<inputs, pc, datasetRun, context, err, completion, runRec,
                   committed, stream, capped, finalArg, fileExists, consumed,
                   failedRows, storeFaults, srcFault, statusHistory,
                   unlinkFailed,
                   progressWrites>>

LoopEnd ==
    /\ pc = "loop"
    /\ inFlight = {}
    /\ idx = capped
    /\ pc' = "final"
    /\ UNCHANGED <<inputs, datasetRun, context, err, completion, runRec,
                   committed, stream, inFlight, wfVars, finalArg, fileExists,
                   consumed, failedRows, storeFaults, srcFault, statusHistory,
                   unlinkFailed,
                   progressWrites>>

\* ---- parseAndIngest: finalisation (137-177) ------------------------------
\* lines 137-144: the COMPLETED update is issued
IssueFinal ==
    /\ pc = "final"
    /\ finalArg' = context.recordsProcessed
    /\ pc' = "awaitFinal"
    /\ UNCHANGED <<inputs, datasetRun, context, err, completion, runRec,
                   committed, stream, inFlight, wfVars, fileExists, consumed,
                   failedRows, storeFaults, srcFault, statusHistory,
                   unlinkFailed,
                   progressWrites>>

\* lines 150-156: the value of the return statement
Result(ctx, run) ==
    [kind |-> "return", error |-> "none", success |-> TRUE,
     recordsProcessed |-> ctx.recordsProcessed,
     recordsFailed |-> ctx.recordsFailed,
     datasetRunId |-> run,
     errors |-> ctx.errors]

Thrown(e) == [NoCompletion EXCEPT !.kind = "throw", !.error = e]

\* FinalOk with a statement after the COMPLETED update throwing inside the try
FinalOkThenThrows ==
    /\ pc = "awaitFinal"
    /\ runRec' = [runRec EXCEPT !.status = "COMPLETED",
                                !.recordsProcessed = finalArg,
                                !.endedAt = TRUE]
    /\ statusHistory' = Append(statusHistory, "COMPLETED")
    /\ datasetRun' = runRec.id
    /\ err' = "lateFault"
    /\ pc' = "catch"
    /\ UNCHANGED <<inputs, context, completion, committed, stream, inFlight,
                   wfVars, finalArg, fileExists, consumed, failedRows,
                   storeFaults, srcFault, unlinkFailed,
                   progressWrites>>

\* the COMPLETED update is accepted; lines 146-156 follow
FinalOk ==
    /\ pc = "awaitFinal"
    /\ runRec' = [runRec EXCEPT !.status = "COMPLETED",
                                !.recordsProcessed = finalArg,
                                !.endedAt = TRUE]
    /\ statusHistory' = Append(statusHistory, "COMPLETED")
    /\ datasetRun' = runRec.id
    /\ completion' = Result(context, runRec.id)
    /\ pc' = "finally"
    /\ UNCHANGED <<inputs, context, err, committed, stream, inFlight, wfVars,
                   finalArg, fileExists, consumed, failedRows, storeFaults,
                   srcFault, unlinkFailed,
                   progressWrites>>

FinalFail ==
    /\ pc = "awaitFinal"
    /\ MayFault
    /\ storeFaults' = [storeFaults EXCEPT !.run = @ + 1]
    /\ err' = "finalWriteFault"
    /\ pc' = "catch"
    /\ UNCHANGED <<inputs, datasetRun, context, completion, runRec, committed,
                   stream, inFlight, wfVars, finalArg, fileExists, consumed,
                   failedRows, srcFault, statusHistory, unlinkFailed,
                   progressWrites>>

\* CatchMarkFailed with the cleanup placed after the try statement instead of
\* in finally: a throwing call skips it
CatchMarkFailedSkipsCleanup ==
    /\ pc = "catch"
    /\ datasetRun # 0
    /\ runRec' = [runRec EXCEPT !.status = "FAILED", !.endedAt = TRUE]
    /\ statusHistory' = Append(statusHistory, "FAILED")
    /\ completion' = Thrown(err)
    /\ pc' = "done"
    /\ UNCHANGED <<inputs, datasetRun, context, err, committed, stream,
                   inFlight, wfVars, finalArg, fileExists, consumed,
                   failedRows, storeFaults, srcFault, unlinkFailed,
                   progressWrites>>

\* lines 161-167 with datasetRun set and the FAILED update accepted
CatchMarkFailed ==
    /\ pc = "catch"
    /\ datasetRun # 0
    /\ runRec' = [runRec EXCEPT !.status = "FAILED", !.endedAt = TRUE]
    /\ statusHistory' = Append(statusHistory, "FAILED")
    /\ completion' = Thrown(err)
    /\ pc' = "finally"
    /\ UNCHANGED <<inputs, datasetRun, context, err, committed, stream,
                   inFlight, wfVars, finalArg, fileExists, consumed,
                   failedRows, storeFaults, srcFault, unlinkFailed,
                   progressWrites>>

\* lines 161-166 with the FAILED update rejected: its error leaves the catch
CatchMarkRejected ==
    /\ pc = "catch"
    /\ datasetRun # 0
    /\ MayFault
    /\ storeFaults' = [storeFaults EXCEPT !.run = @ + 1]
    /\ completion' = Thrown("failedWriteFault")
    /\ pc' = "finally"
    /\ UNCHANGED <<inputs, datasetRun, context, err, runRec, committed, stream,
                   inFlight, wfVars, finalArg, fileExists, consumed,
                   failedRows, srcFault, statusHistory, unlinkFailed,
                   progressWrites>>

\* lines 161, 167 with datasetRun null
CatchNoRun ==
    /\ pc = "catch"
    /\ datasetRun = 0
    /\ completion' = Thrown(err)
    /\ pc' = "finally"
    /\ UNCHANGED <<inputs, datasetRun, context, err, runRec, committed, stream,
                   inFlight, wfVars, finalArg, fileExists, consumed,
                   failedRows, storeFaults, srcFault, statusHistory,
                   unlinkFailed,
                   progressWrites>>

\* lines 168-177; the call settles with completion afterwards
CleanupUnlinked ==
    /\ pc = "finally"
    /\ fileExists
    /\ fileExists' = FALSE
    /\ pc' = "done"
    /\ UNCHANGED <<inputs, datasetRun, context, err, completion, runRec,
                   committed, stream, inFlight, wfVars, finalArg, consumed,
                   failedRows, storeFaults, srcFault, statusHistory,
                   unlinkFailed,
                   progressWrites>>

\* CleanupFailed without the inner try: the unlink error leaves finally
CleanupFailedEscapes ==
    /\ pc = "finally"
    /\ fileExists
    /\ unlinkFailed' = TRUE
    /\ completion' = Thrown("unlinkFault")
    /\ pc' = "done"
    /\ UNCHANGED <<inputs, datasetRun, context, err, runRec, committed, stream,
                   inFlight, wfVars, finalArg, fileExists, consumed,
                   failedRows, storeFaults, srcFault, statusHistory,
                   progressWrites>>

\* fsp.unlink throws and catch (e) swallows it
CleanupFailed ==
    /\ pc = "finally"
    /\ fileExists
    /\ unlinkFailed' = TRUE
    /\ pc' = "done"
    /\ UNCHANGED <<inputs, datasetRun, context, err, completion, runRec,
                   committed, stream, inFlight, wfVars, finalArg, fileExists,
                   consumed, failedRows, storeFaults, srcFault, statusHistory,
                   progressWrites>>

Next ==
    \/ CreateRunOk \/ CreateRunFail
    \/ PushEmit \/ PushBuffer \/ Deliver \/ Resume
    \/ SourceEnd \/ EmitEnd \/ ParseFault \/ FileReadFault
    \/ AwaitStream
    \/ CreateOk \/ CreateFail \/ ProgressOk \/ ProgressFail
    \/ LoadOk \/ LoadFail \/ LoopStart \/ LoopNext \/ LoopEnd
    \/ IssueFinal \/ FinalOk \/ FinalFail
    \/ CatchMarkFailed \/ CatchMarkRejected \/ CatchNoRun
    \/ CleanupUnlinked \/ CleanupFailed

Spec == Init /\ [][Next]_vars

\* the event loop runs every callback that is ready and the store answers
\* every call
LiveSpec == Spec /\ WF_vars(Next)

\* ---- validateRow called on its own --------------------------------------
\* cell values a CSV or a spreadsheet row can hold in a core column
CoreCells ==
    {Undefined, Null, Str(<<>>), Str(<<"0">>), Str(<<"7">>),
     Str(<<"-", "5">>), Str(<<"a", "b", "c">>), Num(0), Num(7), Num(-5)}
RawRows ==
    [TransactionID : CoreCells, TransactionDT : CoreCells,
     TransactionAmt : CoreCells]

runVars == <<filePath, rows, maxRows, pc, datasetRun, context, err,
             completion, runRec, committed, stream, inFlight, idx, capped,
             finalArg, fileExists, consumed, failedRows, storeFaults,
             srcFault, statusHistory, unlinkFailed, progressWrites>>

\* cell values of the columns that are not mandatory
NumericCells ==
    {Undefined, Null, Str(<<>>), Str(<<"7">>), Str(<<"a", "b", "c">>), Num(7)}
FlagCells ==
    {Undefined, Str(<<>>), Str(<<"y">>), Str(<<"t">>), Str(<<"n", "o">>),
     Num(1), Num(2), Bool(TRUE)}

\* valid rows of the first schema that carry optional columns
OptionalRows ==
    [TransactionID : {Str(<<"7">>)}, TransactionDT : {Num(9)},
     TransactionAmt : {Str(<<"5">>)},
     card1 : NumericCells, dist1 : NumericCells, isFraud : FlagCells]

\* rows of the second schema
AccountCells == {Undefined, Str(<<"7">>), Str(<<"a", "b", "c">>), Num(7)}
RawRows_2 ==
    [timestamp : {Undefined, Str(<<"7">>)},
     sender_account : AccountCells,
     receiver_account : {Str(<<"7">>), Str(<<"a", "b", "c">>)},
     amount_ngn : {Undefined, Str(<<"7">>), Str(<<"a", "b", "c">>), Num(0),
                   Num(7), Num(-5)},
     txn_hour : NumericCells,
     is_weekend : FlagCells,
     time_since_last : {Undefined, Str(<<"a", "b", "c">>), Str(<<"7">>)},
     merchant_fraud_rate : {Undefined, Str(<<"a", "b", "c">>), Num(7)}]

\* what the caller may hand over instead of a row
NoRows == {Undefined, Null}

NewCall(fn, arg) ==
    [fn |-> fn, arg |-> arg, done |-> FALSE, out |-> Null,
     twice |-> FALSE, again |-> Null]

InitValidate ==
    /\ filePath = <<"t", ".", "c", "s", "v", "-", "1">>
    /\ rows = <<>>
    /\ maxRows = DefaultMaxRows
    /\ call \in {NewCall("validateRow", r) :
                    r \in RawRows \cup OptionalRows \cup NoRows}
               \cup {NewCall("validateRow_2", r) : r \in RawRows_2 \cup NoRows}
    /\ InitRun

ApplyValidateRow ==
    /\ call.fn = "validateRow" /\ ~call.done
    /\ call' = [call EXCEPT !.done = TRUE, !.out = validateRow(call.arg)]
    /\ UNCHANGED runVars

ApplyValidateRow_2 ==
    /\ call.fn = "validateRow_2" /\ ~call.done
    /\ call' = [call EXCEPT !.done = TRUE, !.out = validateRow_2(call.arg)]
    /\ UNCHANGED runVars

NextValidate == ApplyValidateRow \/ ApplyValidateRow_2

SpecValidate == InitValidate /\ [][NextValidate]_vars

\* ---- the coercion helpers called on their own, once and once more --------
CoerceArgs ==
    {Undefined, Null, NaN, Bool(TRUE), Bool(FALSE),
     Num(0), Num(1), Num(2), Num(7), Num(-5), Big(7),
     Str(<<>>), Str(<<" ">>), Str(<<"0">>), Str(<<"1">>), Str(<<"7">>),
     Str(<<" ", "7", " ">>), Str(<<"-", "5">>), Str(<<"7", "a">>),
     Str(<<"a", "b", "c">>), Str(<<" ", "a", "b">>),
     Str(<<"t", "r", "u", "e">>), Str(<<"T", "R", "U", "E">>),
     Str(<<"Y", "e", "s">>), Str(<<"y">>), Str(<<"Y">>), Str(<<"t">>),
     Str(<<"T">>), Str(<<" ", "t", "r", "u", "e">>), Str(<<"y", " ">>),
     Str(<<"n", "o">>), Str(<<"f", "a", "l", "s", "e">>)}

Helpers ==
    {"toBoolean", "toFloat", "toInt", "toBigInt", "toDecimal", "toString",
     "toChar"}
Helpers_2 == {"toBoolean_2", "toFloat_2"}

InitCoerce ==
    /\ filePath = <<"t", ".", "c", "s", "v", "-", "1">>
    /\ rows = <<>>
    /\ maxRows = DefaultMaxRows
    /\ call \in {NewCall(f, a) : f \in Helpers \cup Helpers_2, a \in CoerceArgs}
    /\ InitRun

\* a helper called on the argument, then on its own result: first and second
\* are what the two calls return
CoerceStep(name, first, second) ==
    /\ call.fn = name /\ ~call.twice
    /\ call' = IF ~call.done
               THEN [call EXCEPT !.done = TRUE, !.out = first]
               ELSE [call EXCEPT !.twice = TRUE, !.again = second]
    /\ UNCHANGED runVars

ApplyToBoolean ==
    CoerceStep("toBoolean", toBoolean(call.arg), toBoolean(call.out))
ApplyToFloat ==
    CoerceStep("toFloat", toFloat(call.arg), toFloat(call.out))
ApplyToInt ==
    CoerceStep("toInt", toInt(call.arg), toInt(call.out))
ApplyToBigInt ==
    CoerceStep("toBigInt", toBigInt(call.arg), toBigInt(call.out))
ApplyToDecimal ==
    CoerceStep("toDecimal", toDecimal(call.arg), toDecimal(call.out))
ApplyToString ==
    CoerceStep("toString", toString(call.arg), toString(call.out))
ApplyToChar ==
    CoerceStep("toChar", toChar(call.arg), toChar(call.out))
ApplyToBoolean_2 ==
    CoerceStep("toBoolean_2", toBoolean_2(call.arg), toBoolean_2(call.out))
ApplyToFloat_2 ==
    CoerceStep("toFloat_2", toFloat_2(call.arg), toFloat_2(call.out))

NextCoerce ==
    \/ ApplyToBoolean \/ ApplyToFloat \/ ApplyToInt \/ ApplyToBigInt
    \/ ApplyToDecimal \/ ApplyToString \/ ApplyToChar
    \/ ApplyToBoolean_2 \/ ApplyToFloat_2

SpecCoerce == InitCoerce /\ [][NextCoerce]_vars

\* ---- the format dispatch on its own --------------------------------------
MaxPathLen == 5
PathChars == {".", "c", "C", "s", "v", "V", "-", "x"}
DispatchPaths == UNION {[1..k -> PathChars] : k \in 0..MaxPathLen}

\* excelParser.js lines 14-15
isCsv_parser(path) ==
    \/ endsWith(toLowerCase(path), <<".", "c", "s", "v">>)
    \/ includes(toLowerCase(path), <<".", "c", "s", "v", "-">>)

\* main.js lines 99 and 124: the branch parseAndIngest takes
Dispatch(path) == IF isCsv(path) THEN "stream" ELSE "whole-file"
\* excelParser.js lines 17 and 31: the reader parseTransactionFile takes
Dispatch_parser(path) == IF isCsv_parser(path) THEN "csv" ELSE "xlsx"

InitDispatch ==
    /\ filePath \in DispatchPaths
    /\ rows = <<>>
    /\ maxRows = DefaultMaxRows
    /\ call = NewCall("dispatch", Null)
    /\ InitRun

ApplyDispatch ==
    /\ call.fn = "dispatch" /\ ~call.done
    /\ call' = [call EXCEPT !.done = TRUE,
                            !.out = [main |-> Dispatch(filePath),
                                     parser |-> Dispatch_parser(filePath)]]
    /\ UNCHANGED runVars

NextDispatch == ApplyDispatch

SpecDispatch == InitDispatch /\ [][NextDispatch]_vars

\* ---- routes/excelIngest.js: the upload route around parseAndIngest -------
\* res as the handler sees it: json() writes a response, and throws when one
\* has been written already (Node refuses to set headers twice)
NewRequest(hasFile) ==
    [fn |-> "route", hasFile |-> hasFile, at |-> "start",
     responseSent |-> FALSE, responses |-> <<>>, sendCalls |-> 0,
     threw |-> FALSE]

\* res.status(code).json(body)
ResJson(r, code) ==
    IF r.threw THEN r
    ELSE IF r.responses # <<>>
    THEN [r EXCEPT !.sendCalls = @ + 1, !.threw = TRUE]
    ELSE [r EXCEPT !.sendCalls = @ + 1, !.responses = Append(@, code)]

InitRoute ==
    /\ filePath \in Paths
    /\ rows \in Files
    /\ maxRows \in RowCaps
    /\ call \in {NewRequest(h) : h \in BOOLEAN}
    /\ InitRun

\* lines 11-14
RouteNoFile ==
    /\ call.fn = "route" /\ call.at = "start" /\ ~call.hasFile
    /\ call' = [ResJson([call EXCEPT !.responseSent = TRUE], 400)
                    EXCEPT !.at = "ended"]
    /\ UNCHANGED runVars

\* lines 16-19: parseAndIngest is called and awaited
RouteInvoke ==
    /\ call.fn = "route" /\ call.at = "start" /\ call.hasFile
    /\ call' = [call EXCEPT !.at = "await"]
    /\ UNCHANGED runVars

\* the awaited call runs
RoutePipeline == call.fn = "route" /\ call.at = "await" /\ Next

\* lines 20-26: the call returned
RouteRespondOk ==
    /\ call.fn = "route" /\ call.at = "await"
    /\ pc = "done" /\ completion.kind = "return"
    /\ LET r == ResJson([call EXCEPT !.responseSent = TRUE], 200) IN
         call' = [r EXCEPT !.at = IF r.threw THEN "rejected" ELSE "ended"]
    /\ UNCHANGED runVars

\* lines 27-34: the call threw; an error thrown inside catch leaves the
\* handler as a rejection
RouteCatch ==
    /\ call.fn = "route" /\ call.at = "await"
    /\ pc = "done" /\ completion.kind = "throw"
    /\ LET r1 == ResJson(call, 500)
           r2 == IF ~r1.responseSent
                 THEN ResJson([r1 EXCEPT !.responseSent = TRUE], 500)
                 ELSE r1
       IN call' = [r2 EXCEPT !.at = IF r2.threw THEN "rejected" ELSE "ended"]
    /\ UNCHANGED runVars

NextRoute ==
    \/ RouteNoFile \/ RouteInvoke \/ RoutePipeline
    \/ RouteRespondOk \/ RouteCatch

SpecRoute == InitRoute /\ [][NextRoute]_vars

\* ---- properties -----------------------------------------------------------
Settled == pc = "done"
Returned == pc = "done" /\ completion.kind = "return"
Threw == pc = "done" /\ completion.kind = "throw"
Streaming == isCsv(filePath)
RunCreated == runRec.id # 0
RowFaultsOnly == srcFault = "none" /\ storeFaults.run = 0
AtCheckpoint == \E h \in inFlight : h.at = "progress"

\* C1: at every progress checkpoint and when parseAndIngest returns,
\* recordsProcessed + recordsFailed equals the number of rows consumed so far,
\* whatever the outcomes of the rows and of the progress writes.
C1_CountersMatchConsumed ==
    /\ AtCheckpoint =>
          context.recordsProcessed + context.recordsFailed = consumed
    /\ Returned =>
          completion.recordsProcessed + completion.recordsFailed = consumed

\* C2: once parseAndIngest has settled, by a result or by an error, the input
\* file no longer exists, provided the delete itself succeeded.
C2_FileRemovedOnEveryExit == (Settled /\ ~unlinkFailed) => ~fileExists

\* C2 witness: the call has thrown a stream fault and the file is gone.
C2_Witness ==
    /\ Threw
    /\ completion.error = "streamFault"
    /\ ~unlinkFailed
    /\ ~fileExists

StatusPaths ==
    {<<>>, <<"RUNNING">>, <<"RUNNING", "COMPLETED">>, <<"RUNNING", "FAILED">>}

C4_ErrorsCappedFailuresCounted ==
    /\ Len(context.errors) <= ErrorCap
    /\ failedRows <= context.recordsFailed
    /\ Len(context.errors) = Min(context.recordsFailed, ErrorCap)

\* C4 witness: the list is full, an insert failure came after the 50th
\* failure and was counted.
C4_Witness ==
    /\ Len(context.errors) = ErrorCap
    /\ context.recordsFailed > ErrorCap
    /\ storeFaults.row > 0
    /\ failedRows = context.recordsFailed

\* C5: whenever parseAndIngest throws after the run record was created, the
\* persisted run is FAILED with endedAt set and the caller receives the
\* original fault.
C5_ThrowLeavesRunFailed ==
    (Threw /\ RunCreated) =>
        /\ runRec.status = "FAILED"
        /\ runRec.endedAt
        /\ completion.error = err

\* C6: in streaming mode, rows that fail validation or whose insert is
\* rejected never abort the run: each failure is counted, every row up to the
\* cap is consumed and the call returns a result with the run COMPLETED.
C6_RowFaultsDoNotAbort ==
    Streaming =>
        /\ failedRows <= context.recordsFailed
        /\ (Settled /\ RowFaultsOnly) =>
              /\ completion.kind = "return"
              /\ runRec.status = "COMPLETED"
              /\ consumed = Min(Len(rows), maxRows)

\* C6 witness: a streaming run with a rejected insert and a later row
\* rejected by validation has returned a result.
C6_Witness ==
    /\ Streaming /\ Returned
    /\ storeFaults.row > 0
    /\ failedRows = 2
    /\ completion.recordsFailed = 2
    /\ consumed = Len(rows)

StrictlyIncreasing(seq) ==
    \A i \in 1..(Len(seq) - 1) : seq[i] < seq[i + 1]

\* C7: in streaming mode at most one row is being processed at any time; it
\* is the row delivered last, the stream stays paused until it is resumed
\* from, and rows are committed in file order.
C7_OneRowAtATime ==
    Streaming =>
        /\ Cardinality(inFlight) <= 1
        /\ \A h \in inFlight : h.row = stream.rowsStreamed /\ ~stream.flowing
        /\ StrictlyIncreasing(committed)
        /\ \A i \in 1..Len(committed) : committed[i] <= stream.rowsStreamed

\* C7 witness: a second row is being inserted while further rows wait.
C7_Witness ==
    /\ Streaming
    /\ \E h \in inFlight : h.at = "create" /\ h.row = 2
    /\ committed = <<1>>
    /\ stream.delivered < stream.pushed

\* C8: the rows consumed never exceed the cap and are exactly
\* min(n, maxRows) once a run without source fault has settled, in both
\* modes; a row delivered beyond the cap destroys the stream and is not
\* processed.
C8_ConsumedIsMinOfRowsAndCap ==
    /\ consumed <= maxRows
    /\ \A i \in 1..Len(committed) : committed[i] <= maxRows
    /\ (Settled /\ RunCreated /\ srcFault = "none") =>
          consumed = Min(Len(rows), maxRows)
    /\ (Streaming /\ stream.delivered > stream.rowsStreamed) =>
          stream.destroyed /\ stream.promise = "resolved"
    /\ (Streaming /\ Settled /\ RunCreated /\ srcFault = "none"
        /\ Len(rows) > maxRows) => stream.destroyed

\* C8 witness: a streaming run over a file longer than a positive cap has
\* settled with exactly cap rows consumed and the stream destroyed.
C8_Witness ==
    /\ Streaming /\ Settled
    /\ maxRows > 0 /\ Len(rows) > maxRows
    /\ consumed = maxRows
    /\ stream.destroyed

\* C9: in streaming mode a read fault of the source file makes parseAndIngest
\* reject with that fault.
C9_ReadFaultRejects == srcFault = "read" => stream.promise = "rejected"

\* C10: a returned result has success true, the persisted run is COMPLETED
\* with endedAt set, the persisted recordsProcessed equals the returned one
\* and datasetRunId is the id of the run created by this call.
C10_ResultMatchesRun ==
    Returned =>
        /\ completion.success
        /\ runRec.status = "COMPLETED"
        /\ runRec.endedAt
        /\ runRec.recordsProcessed = completion.recordsProcessed
        /\ completion.datasetRunId = RunId

Validated == call.fn = "validateRow" /\ call.done
Absent(v) == v \in {Undefined, Null}
NegativeCells == {Num(-5), Str(<<"-", "5">>)}

\* C11: validateRow rejects every raw row in which TransactionID or
\* TransactionDT is absent, or TransactionAmt is absent or negative, whatever
\* the other cells hold.
C11_MandatoryFieldsEnforced ==
    (/\ Validated
     /\ call.arg \notin NoRows
     /\ \/ Absent(call.arg.TransactionID)
        \/ Absent(call.arg.TransactionDT)
        \/ Absent(call.arg.TransactionAmt)
        \/ call.arg.TransactionAmt \in NegativeCells)
    => ~call.out.valid

\* C11 witness: a row with id and time present and the amount "-5" has been
\* rejected for its amount.
C11_Witness ==
    /\ Validated
    /\ call.arg = [TransactionID |-> Str(<<"7">>), TransactionDT |-> Num(7),
                   TransactionAmt |-> Str(<<"-", "5">>)]
    /\ ~call.out.valid
    /\ call.out.error = "Invalid TransactionAmt"

\* C20: every raw row validateRow accepts yields a transaction whose
\* TransactionID, TransactionDT and TransactionAmt are all non-null.
C20_AcceptedCoreFieldsNonNull ==
    (Validated /\ call.out.valid) =>
        /\ call.out.data.TransactionID # Null
        /\ call.out.data.TransactionDT # Null
        /\ call.out.data.TransactionAmt # Null

NoStoreFault ==
    storeFaults.row = 0 /\ storeFaults.progress = 0 /\ storeFaults.run = 0
Terminal == runRec.status \in {"COMPLETED", "FAILED"}

\* C12: the recordsProcessed persisted on the run record never exceeds the
\* number of transactions committed, and the values written to it never
\* decrease.
C12_PersistedCountBounded ==
    [][/\ runRec'.recordsProcessed <= Len(committed')
       /\ runRec'.recordsProcessed >= runRec.recordsProcessed]_vars

\* C13: when a fatal read error has aborted a streaming run after k committed
\* rows, the run record ends FAILED with endedAt set and recordsProcessed = k.
C13_ReadFaultLeavesCount ==
    (/\ srcFault \in {"read", "parse"}
     /\ Settled \/ pc = "crashed")
    => /\ runRec.status = "FAILED"
       /\ runRec.endedAt
       /\ runRec.recordsProcessed = Len(committed)

\* C14: every invocation eventually settles and the run record it created
\* eventually leaves RUNNING, also when the file read faults mid-stream.
C14_EventuallyFinalized == <>(Settled /\ (RunCreated => Terminal))

\* C15: once the run record is COMPLETED or FAILED no write modifies it and
\* no transaction is committed afterwards.
C15_TerminalRunImmutable ==
    [][Terminal => (runRec' = runRec /\ committed' = committed)]_vars

CeilDiv(n, b) == (n + b - 1) \div b

\* the ordinals of the first m rows that pass validation, in file order
RECURSIVE ValidOrdinals(_)
ValidOrdinals(m) ==
    IF m = 0 THEN <<>>
    ELSE IF validateRow(rows[m]).valid
         THEN Append(ValidOrdinals(m - 1), m)
         ELSE ValidOrdinals(m - 1)

AmountCellEmpty(row) == row.TransactionAmt \in {Undefined, Null, Str(<<>>)}
EmptyAmounts == Cardinality({i \in 1..Len(rows) : AmountCellEmpty(rows[i])})

\* C18: a CSV run under the cap whose store calls all succeed returns
\* recordsFailed = k, the number of rows without a value in the amount cell,
\* recordsProcessed = the number of the other rows and min(k, 50) errors.
C18_EmptyAmountRowsFail ==
    (/\ Streaming /\ Returned
     /\ NoStoreFault /\ srcFault = "none"
     /\ Len(rows) <= maxRows)
    => /\ completion.recordsFailed = EmptyAmounts
       /\ completion.recordsProcessed = Len(rows) - EmptyAmounts
       /\ Len(completion.errors) = Min(EmptyAmounts, ErrorCap)

\* C19: a failing delete of the file does not change what the call settles
\* with: the result or the error decided before the cleanup stands.
C19_CleanupKeepsOutcome ==
    [][(pc = "finally" /\ pc' = "done") =>
          /\ completion' = completion
          /\ completion.kind \in {"return", "throw"}]_vars

\* C19 witness: the delete failed after the call had caught a stream fault,
\* and the caller received that fault.
C19_Witness ==
    /\ Settled /\ unlinkFailed /\ fileExists
    /\ completion = Thrown("streamFault")

\* a step that hands a row to processRow, and one whose row fails validation
RowStarted == consumed' = consumed + 1
RowRejected == RowStarted /\ ~validateRow(rows[consumed']).valid
StoreCalls(fl) == {h \in fl : h.at \in {"create", "progress"}}
ProgressIssued == {h \in inFlight' \ inFlight : h.at = "progress"}

\* C26: a progress write is issued exactly by the step in which an accepted
\* insert brings recordsProcessed to a positive multiple of 50, with that
\* recordsProcessed as its value; a rejected row or a failed insert issues
\* none.
C26_ProgressEveryFiftieth ==
    [][/\ (ProgressIssued # {}) <=>
            /\ Len(committed') = Len(committed) + 1
            /\ context'.recordsProcessed > 0
            /\ context'.recordsProcessed % ProgressEvery = 0
       /\ \A h \in ProgressIssued :
            /\ h.arg = context'.recordsProcessed
            /\ h.row = committed'[Len(committed')]]_vars

\* C26 witness: the fiftieth insert was accepted and the progress write
\* carrying 50 is under way.
C26_Witness ==
    /\ Len(committed) = ProgressEvery
    /\ \E h \in inFlight : h.at = "progress" /\ h.arg = ProgressEvery

\* C27: the step that rejects a row by validation issues no store call,
\* leaves the store and recordsProcessed as they are, and changes only
\* recordsFailed and, below the cap, the error list.
C27_RejectedRowTouchesNoStore ==
    [][RowRejected =>
          /\ committed' = committed
          /\ runRec' = runRec
          /\ StoreCalls(inFlight') = StoreCalls(inFlight)
          /\ context'.recordsProcessed = context.recordsProcessed
          /\ context'.datasetRunId = context.datasetRunId
          /\ context'.recordsFailed = context.recordsFailed + 1
          /\ IF Len(context.errors) < ErrorCap
             THEN /\ Len(context'.errors) = Len(context.errors) + 1
                  /\ SubSeq(context'.errors, 1, Len(context.errors)) = context.errors
             ELSE context'.errors = context.errors]_vars

\* C27 witness: one row was consumed and rejected, nothing else happened to
\* the run.
C27_Witness ==
    /\ consumed = 1 /\ failedRows = 1
    /\ context.recordsFailed = 1 /\ context.recordsProcessed = 0
    /\ Len(context.errors) = 1
    /\ committed = <<>> /\ StoreCalls(inFlight) = {}

\* C28: in streaming mode the COMPLETED write is issued only when no
\* processRow call is still awaiting the store.
C28_FinalAfterRowsSettled ==
    (Streaming /\ pc = "awaitFinal") => StoreCalls(inFlight) = {}

\* C29: the ordinal recorded with a validation error is the 1-based position
\* of the rejected row among the rows consumed.
C29_ErrorOrdinalIsPosition ==
    [][(RowRejected /\ Len(context'.errors) = Len(context.errors) + 1) =>
          context'.errors[Len(context'.errors)].row = consumed']_vars

\* a raw value that is absent, or text no number can be read from
AbsentOrUnparsable(v) == v \in {Undefined, Null, Str(<<"a", "b", "c">>)}
NullOrDefault == {Null, Num(0)}

\* optional numeric columns and flags: raw name, normalized name
NumericFields(fn) ==
    IF fn = "validateRow"
    THEN {<<"card1", "card1">>, <<"dist1", "dist1">>}
    ELSE {<<"txn_hour", "txnHour">>, <<"time_since_last", "timeSinceLast">>,
          <<"merchant_fraud_rate", "merchantFraudRate">>}
FlagFields(fn) ==
    IF fn = "validateRow" THEN {<<"isFraud", "isFraud">>}
    ELSE {<<"is_weekend", "isWeekend">>}

Normalized == call.fn \in {"validateRow", "validateRow_2"} /\ call.done

\* C21: in both schemas an optional numeric column whose raw value is absent
\* or unparsable text is normalized to null or to 0, never to NaN, and an
\* absent flag is normalized to false.
C21_NoNaNFromBadNumbers ==
    (Normalized /\ call.out.valid) =>
        /\ \A p \in NumericFields(call.fn) :
              AbsentOrUnparsable(Get(call.arg, p[1]))
                  => call.out.data[p[2]] \in NullOrDefault
        /\ \A p \in FlagFields(call.fn) :
              Get(call.arg, p[1]) \in {Undefined, Null}
                  => call.out.data[p[2]] = Bool(FALSE)

\* the inputs the boolean coercion is to read as true
TruthyLiteral(v) ==
    \/ v = Bool(TRUE)
    \/ v = Num(1)
    \/ /\ v.t = "string"
       /\ toLowerCase(v.s) \in {<<"t", "r", "u", "e">>, <<"y", "e", "s">>,
                                <<"1">>, <<"y">>, <<"t">>}

\* C22: toBoolean of either schema returns true exactly for boolean true,
\* the number 1 and the texts true, yes, 1, y, t in any letter case, and
\* false for every other input.
C22_TruthyLiteralsOnly ==
    (call.fn \in {"toBoolean", "toBoolean_2"} /\ call.done)
        => call.out = Bool(TruthyLiteral(call.arg))

\* C23: every coercion helper of lines 313-357 is idempotent: applied to its
\* own result it returns that result.
C23_HelpersIdempotent ==
    (call.fn \in Helpers /\ call.twice) => call.again = call.out

\* the path, lower-cased, has ".csv" at its end or ".csv" followed by "-"
CsvNamed(path) ==
    \E i \in 1..Len(path) :
        /\ i + 3 <= Len(path)
        /\ path[i] = "."
        /\ path[i + 1] \in {"c", "C"}
        /\ path[i + 2] \in {"s", "S"}
        /\ path[i + 3] \in {"v", "V"}
        /\ i + 3 = Len(path) \/ path[i + 4] = "-"

\* C24: the streaming branch is taken exactly for the paths named as CSV
\* (".csv" at the end, or ".csv-" anywhere, in any letter case), every other
\* path takes the whole-file branch, and parseTransactionFile's test picks
\* the CSV reader for exactly the same paths.
C24_DispatchByCsvName ==
    (call.fn = "dispatch" /\ call.done) =>
        /\ call.out.main = IF CsvNamed(filePath) THEN "stream" ELSE "whole-file"
        /\ call.out.main = "stream" <=> call.out.parser = "csv"

\* C24 witness: an upper-case CSV name with the upload suffix is streamed.
C24_Witness ==
    /\ call.fn = "dispatch" /\ call.done
    /\ filePath = <<".", "C", "s", "V", "-">>
    /\ call.out.main = "stream"
    /\ call.out.parser = "csv"

\* C25: validateRow of either schema never throws: for every raw row it
\* returns either valid with data or invalid with an error.
C25_ValidateRowNeverThrows ==
    Normalized =>
        /\ ~call.out.threw
        /\ call.out.valid => (call.out.data # Null /\ call.out.error = "")
        /\ ~call.out.valid => (call.out.data = Null /\ call.out.error # "")

\* C25 witness: BigInt threw on a sender account that is no integer and the
\* row came back invalid with that error.
C25_Witness ==
    /\ call.fn = "validateRow_2" /\ call.done
    /\ call.arg # Null /\ call.arg # Undefined
    /\ Get(call.arg, "sender_account") = Str(<<"a", "b", "c">>)
    /\ Get(call.arg, "amount_ngn") = Num(7)
    /\ ~call.out.valid
    /\ call.out.error = "Cannot convert to a BigInt"

\* the request is over: the handler has finished or failed, or the process
\* is gone
RequestOver ==
    call.fn = "route" /\ (call.at \in {"ended", "rejected"} \/ pc = "crashed")
ExpectedStatus ==
    IF ~call.hasFile THEN 400
    ELSE IF completion.kind = "return" THEN 200 ELSE 500

\* C30: every request to the upload route ends with exactly one response,
\* sent by exactly one call: 400 without a file and without running the
\* pipeline, 200 when parseAndIngest returned, 500 when it threw.
C30_ExactlyOneResponse ==
    RequestOver =>
        /\ call.responses = <<ExpectedStatus>>
        /\ call.sendCalls = 1
        /\ ~call.hasFile => (pc = "create" /\ runRec = NoRun)

====
